---- MODULE Spec2Model ----
(***************************************************************************)
(* A model of theo's backend selection (DisplayBuilder::build_from_raw)    *)
(* and of the guards that a drawing session (RenderContext) acquires and   *)
(* releases: the per-thread HAS_CONTEXT flag and, for the desktop GL       *)
(* backend, the hand-over of the native context between the Display's      *)
(* not-current slot and the session's ContextScope.                        *)
(*                                                                         *)
(* The specifications share the variables:                                 *)
(*   SpecBuild    the builder and build_from_raw                           *)
(*   Spec         opening and dropping sessions, checked and unchecked     *)
(*   SpecChecked  sessions opened with RenderContext::new only, with       *)
(*                drawing and finish                                       *)
(*   SpecGl       the operations of a GL session whose context may have    *)
(*                been displaced by another session of its thread          *)
(*   SpecTransform, SpecClip, SpecDraw                                     *)
(*                the software rasterizer's drawing state stack            *)
(***************************************************************************)
EXTENDS Integers, Sequences, FiniteSets, TLC

VARIABLES
    cfg,          \* compile-time configuration (cargo features, cfg aliases)
    builder,      \* the DisplayBuilder's fields
    built,        \* the outcome of the last build_from_raw
    HAS_CONTEXT,  \* the thread-local flag, one per thread
    dispBackend,  \* Display.dispatch: the variant of each Display
    dispThread,   \* the thread each Display (and its Surface) lives on
    slot,         \* desktop_gl::Display.context is Some (not-current context)
    renderer,     \* desktop_gl::Display.renderer is Some
    surf,         \* swrast::Surface.buffer.len() of each Surface
    session,      \* the live RenderContext borrowing each Display, if any
    glCurrent,    \* per thread: the Display whose GL context is current
    aborted,      \* the process aborted (panic while panicking)
    lastOp,       \* what the last operation did and returned
    resources,    \* the Brushes and Images the sessions have returned
    render_states, \* swrast::RenderContext.render_states, base frame first
    lastError,    \* swrast::RenderContext.last_error
    marks,        \* for each save not yet restored: the top frame it saw
    twoTransforms, \* the last two transform() calls, the first on IDENTITY
    history,      \* the first stored error, and the calls followed so far
    lastCall,     \* what the last call of the swrast session did
    size,         \* swrast::RenderContext.size, NoSize with no session open
    buffer,       \* swrast::Surface.buffer: its length and its first pixels
    shown,        \* what the last set_buffer handed to the window
    made          \* the last make_image of the swrast session: inputs, outcome

buildVars == <<cfg, builder, built>>
drawVars == <<render_states, lastError, marks, twoTransforms, history,
              lastCall, size, buffer, shown>>
openVars == <<HAS_CONTEXT, dispBackend, dispThread, slot, renderer, surf, session,
              glCurrent, aborted, lastOp, resources>>
sessVars == <<openVars, drawVars, made>>
vars == <<cfg, builder, built, HAS_CONTEXT, dispBackend, dispThread, slot,
          renderer, surf, session, glCurrent, aborted, lastOp, resources,
          render_states,
          lastError, marks, twoTransforms, history, lastCall, size, buffer,
          shown, made>>

(***************************************************************************)
(* Backend registry and fallback selection                                 *)
(***************************************************************************)

\* The cargo features and cfg aliases a build of the crate can have.
Configs ==
    [wgpu : BOOLEAN, gl : {"none"}, glx : {"no"}]
    \cup [wgpu : BOOLEAN, gl : {"WebGl"}, glx : {"no"}]
    \cup [wgpu : BOOLEAN, gl : {"DesktopGl"}, glx : {"no", "only", "with_egl"}]

\* The backends in the order of the make_dispatch! invocation.
Registry(c) ==
    (IF c.wgpu THEN <<"Wgpu">> ELSE <<>>)
    \o (IF c.gl = "none" THEN <<>> ELSE <<c.gl>>)
    \o <<"SwRast">>

DefaultBuilder ==
    [window |-> FALSE, glx_error_hook |-> FALSE,
     transparent |-> TRUE, force_swrast |-> FALSE]

\* What the platform answers to the native calls of a GL Display::new.
NativeOutcomes ==
    {"ok", "no_display", "no_configs", "empty_configs", "no_context",
     "not_web", "no_document"}

Ok(b) == [ok |-> TRUE, err |-> "none", builder |-> b]
Err(e, b) == [ok |-> FALSE, err |-> e, builder |-> b]

\* A faulty variant: a wgpu Display::new without the force_swrast test.
WgpuDisplayNewUnforced(b) == Ok(b)

WgpuDisplayNew(b) ==
    IF b.force_swrast THEN Err("SwitchToSwrast", b) ELSE Ok(b)

DesktopGlDisplayNew(b, nat, c) ==
    IF b.force_swrast THEN Err("SwitchToSwrast", b)
    ELSE IF c.glx = "only" /\ ~b.glx_error_hook THEN Err("GlxHookNotSet", b)
    ELSE LET b1 == IF c.glx = "no" THEN b
                   ELSE [b EXCEPT !.glx_error_hook = FALSE]
         IN  CASE nat = "no_display"    -> Err("GlutinDisplay", b1)
               [] nat = "no_configs"    -> Err("FindConfigs", b1)
               [] nat = "empty_configs" -> Err("NoMatchingConfigs", b1)
               [] nat = "no_context"    -> Err("CreateContext", b1)
               [] OTHER                 -> Ok(b1)

WebGlDisplayNew(b, nat) ==
    IF b.force_swrast THEN Err("SwitchToSwrast", b)
    ELSE CASE nat = "not_web"     -> Err("NotSupported", b)
           [] nat = "no_document" -> Err("NoDocument", b)
           [] OTHER               -> Ok(b)

\* A faulty variant: a software rasterizer whose construction fails.
SwRastDisplayNewFails(b) == Err("NotSupported", b)

\* swrast::Display::new
SwRastDisplayNew(b) == Ok(b)

DisplayNew(name, b, nat, c) ==
    CASE name = "Wgpu"      -> WgpuDisplayNew(b)
      [] name = "DesktopGl" -> DesktopGlDisplayNew(b, nat, c)
      [] name = "WebGl"     -> WebGlDisplayNew(b, nat)
      [] name = "SwRast"    -> SwRastDisplayNew(b)

\* A faulty variant: a build_from_raw that does not return at the first success, so
\* that the last candidate that constructs wins.
TryCandidatesLastWins(i, reg, b, nat, c, attempted, log, last_error) ==
    LET succ == {j \in i..Len(reg) : DisplayNew(reg[j], b, nat, c).ok}
        tried == attempted \o SubSeq(reg, i, Len(reg))
    IN  IF succ = {}
        THEN [ok |-> FALSE, backend |-> "none", err |-> last_error,
              attempted |-> tried, log |-> log]
        ELSE [ok |-> TRUE,
              backend |-> reg[CHOOSE m \in succ : \A j \in succ : j <= m],
              err |-> "none", attempted |-> tried, log |-> log]

\* The expansion of the $( ... )* block of build_from_raw from candidate i on.
RECURSIVE TryCandidates(_, _, _, _, _, _, _, _)
TryCandidates(i, reg, b, nat, c, attempted, log, last_error) ==
    IF i > Len(reg)
    THEN [ok |-> FALSE, backend |-> "none", err |-> last_error,
          attempted |-> attempted, log |-> log]
    ELSE LET r == DisplayNew(reg[i], b, nat, c)
         IN  IF r.ok
             THEN [ok |-> TRUE, backend |-> reg[i], err |-> "none",
                   attempted |-> Append(attempted, reg[i]), log |-> log]
             ELSE TryCandidates(i + 1, reg, r.builder, nat, c,
                                Append(attempted, reg[i]),
                                Append(log, <<reg[i], r.err>>), r.err)

build_from_raw(b, nat, c) ==
    TryCandidates(1, Registry(c), b, nat, c, <<>>, <<>>, "uninit")

NotBuilt ==
    [done |-> FALSE, input |-> DefaultBuilder, nat |-> "ok",
     res |-> [ok |-> FALSE, backend |-> "none", err |-> "uninit",
              attempted |-> <<>>, log |-> <<>>]]

New ==
    /\ builder' = DefaultBuilder
    /\ built' = NotBuilt
    /\ UNCHANGED <<cfg, sessVars>>

Window ==
    /\ ~built.done
    /\ builder' = [builder EXCEPT !.window = TRUE]
    /\ UNCHANGED <<cfg, built, sessVars>>

GlxErrorHook ==
    /\ ~built.done
    /\ builder' = [builder EXCEPT !.glx_error_hook = TRUE]
    /\ UNCHANGED <<cfg, built, sessVars>>

Transparent ==
    /\ ~built.done
    /\ \E v \in BOOLEAN : builder' = [builder EXCEPT !.transparent = v]
    /\ UNCHANGED <<cfg, built, sessVars>>

ForceSwrast ==
    /\ ~built.done
    /\ \E v \in BOOLEAN : builder' = [builder EXCEPT !.force_swrast = v]
    /\ UNCHANGED <<cfg, built, sessVars>>

Build ==
    /\ ~built.done
    /\ \E nat \in NativeOutcomes :
         built' = [done |-> TRUE, input |-> builder, nat |-> nat,
                   res |-> build_from_raw(builder, nat, cfg)]
    /\ UNCHANGED <<cfg, builder, sessVars>>

(***************************************************************************)
(* Sessions: RenderContext::new, new_unchecked, drawing, finish and drop   *)
(***************************************************************************)

NumThreads == 2
NumDisplays == 2
MaxDim == 2

Threads == 1..NumThreads
Displays == 1..NumDisplays
Dims == 0..MaxDim

\* The (width, height) pairs sessions are opened with: a size, and a zero in
\* either place.
DimPairs ==
    {p \in Dims \X Dims :
        \/ p[1] = MaxDim /\ p[2] = MaxDim
        \/ p[1] = 0 /\ p[2] = MaxDim
        \/ p[2] = 0 /\ p[1] = MaxDim}

\* A faulty variant: one flag for the whole process, that of the first thread.
ThreadOfProcess(d) == 1

\* Display, Surface and RenderContext are !Send: each lives on one thread.
\* Surface s is the one made by Display s (make_surface), so it carries that
\* Display's variant and lives on its thread.
ThreadOf(d) == dispThread[d]

\* The ways to put the Displays on threads, up to the names of the threads
\* and of the Displays: thread 1 has the first Display, the Displays of a
\* thread are consecutive, and no thread has more of them than the one before.
Placements ==
    {f \in [Displays -> Threads] :
        /\ f[1] = 1
        /\ \A d \in Displays : d > 1 => f[d] \in {f[d - 1], f[d - 1] + 1}
        /\ \A t \in Threads :
             t > 1 => Cardinality({d \in Displays : f[d] = t})
                        <= Cardinality({d \in Displays : f[d] = t - 1})}
SurfBackend(s) == dispBackend[s]

\* The variants a Display can have in a build with configuration c.
Builders ==
    [window : BOOLEAN, glx_error_hook : BOOLEAN,
     transparent : BOOLEAN, force_swrast : BOOLEAN]

BuildableBackends(c) ==
    {build_from_raw(b, nat, c).backend : b \in Builders, nat \in NativeOutcomes}
    \ {"none"}

NoSession ==
    [live |-> FALSE, surface |-> 0, check_context |-> FALSE, scope |-> FALSE,
     finished |-> FALSE, err |-> FALSE, mismatch |-> FALSE]

\* lastOp: the operation, its Display, whether its session is a checked one,
\* what it returned, and what it did on the way (the backend constructor was
\* called, the native surface was resized, the context was taken from the
\* slot, how often make_not_current ran and the slot was written back), the
\* backend tag of the resource it was handed, and whether the frame was
\* presented.
NoOp ==
    [op |-> "none", display |-> 0, checked |-> FALSE, result |-> "ok",
     backend_called |-> FALSE, resized |-> FALSE, took |-> FALSE,
     unmade |-> 0, wrote |-> 0, tag |-> "none", presented |-> FALSE]

\* What the driver answers to the native calls of a session.
Natives ==
    [make_current : BOOLEAN, gl_context_new : BOOLEAN,
     make_not_current : BOOLEAN, configure : BOOLEAN, draw : BOOLEAN]

AllOk ==
    [make_current |-> TRUE, gl_context_new |-> TRUE, make_not_current |-> TRUE,
     configure |-> TRUE, draw |-> TRUE]

\* The native calls an open reaches, by the path it takes: none when it is
\* rejected before the backend constructor runs.
OpenNatives(d, s, w, h, check) ==
    IF (check /\ HAS_CONTEXT[dispThread[d]]) \/ dispBackend[d] # dispBackend[s]
    THEN {AllOk}
    ELSE CASE dispBackend[d] = "DesktopGl" ->
                IF ~slot[d]
                THEN {AllOk}
                ELSE {n \in Natives :
                        /\ n.configure /\ n.draw
                        /\ ~n.make_current =>
                             n.gl_context_new /\ n.make_not_current
                        /\ (w = 0 \/ h = 0 \/ renderer[d]) => n.gl_context_new
                        /\ (w # 0 /\ h # 0 /\ n.gl_context_new) =>
                             n.make_not_current}
           [] dispBackend[d] = "Wgpu" ->
                IF w = 0 \/ h = 0
                THEN {[AllOk EXCEPT !.configure = v] : v \in BOOLEAN}
                ELSE {AllOk}
           [] OTHER -> {AllOk}
\* The native calls a drop and a drawing call reach.
DropNatives(d) ==
    IF session[d].scope
    THEN {[AllOk EXCEPT !.make_not_current = v] : v \in BOOLEAN}
    ELSE {AllOk}
DrawNatives(d) == {[AllOk EXCEPT !.draw = v] : v \in BOOLEAN}

\* The shared state a backend constructor or destructor leaves behind.
\* resized: the native surface was resized or configured.
Effect(res, sl, rn, sf, rs, cur, live, took, unmade, wrote) ==
    [res |-> res, slot |-> sl, renderer |-> rn, surf |-> sf, resized |-> rs,
     cur |-> cur, live |-> live, took |-> took, unmade |-> unmade,
     wrote |-> wrote]

\* Drop for ContextScope: make the context not current and put it back.
\* make_not_current releases whatever context is current on the thread.
ContextScopeDrop(cur, nat) ==
    IF nat.make_not_current
    THEN [slot |-> TRUE, cur |-> 0, unmade |-> 1, wrote |-> 1, panicked |-> FALSE]
    ELSE [slot |-> FALSE, cur |-> cur, unmade |-> 1, wrote |-> 0, panicked |-> TRUE]

\* desktop_gl::RenderContext::new_impl
GlNewImpl(d, s, w, h, nat) ==
    LET cur == glCurrent[ThreadOf(d)] IN
    IF ~slot[d]
    THEN \* context.take().unwrap() on an empty slot
         Effect("panic", FALSE, renderer[d], surf[s], FALSE, cur, FALSE,
                FALSE, 0, 0)
    ELSE IF ~nat.make_current
    THEN \* the ? returns; the context taken from the slot is dropped
         Effect("backend_error", FALSE, renderer[d], surf[s], FALSE, cur, FALSE,
                TRUE, 0, 0)
    ELSE IF w = 0 \/ h = 0
    THEN \* NonZeroU32::new(..).unwrap() panics; unwinding drops the scope
         LET sd == ContextScopeDrop(d, nat) IN
         Effect(IF sd.panicked THEN "abort" ELSE "panic",
                sd.slot, renderer[d], surf[s], FALSE, sd.cur, FALSE,
                TRUE, sd.unmade, sd.wrote)
    ELSE IF ~renderer[d] /\ ~nat.gl_context_new
    THEN \* GlContext::new failed; the ? returns and drops the scope
         LET sd == ContextScopeDrop(d, nat) IN
         Effect(IF sd.panicked THEN "panic" ELSE "backend_error",
                sd.slot, FALSE, surf[s], TRUE, sd.cur, FALSE,
                TRUE, sd.unmade, sd.wrote)
    ELSE Effect("ok", FALSE, TRUE, surf[s], TRUE, d, TRUE, TRUE, 0, 0)

\* u32 arithmetic by 16-bit halves: a * b modulo 2^32, and whether the
\* product leaves the 32 bits.
Half == 2^16
WrappingMul(a, b) ==
    LET a1 == a \div Half
        a0 == a % Half
        b1 == b \div Half
        b0 == b % Half
        low == a0 * b0
    IN  (((low \div Half) + a1 * b0 + a0 * b1) % Half) * Half + (low % Half)
Overflows(a, b) ==
    LET a1 == a \div Half
        a0 == a % Half
        b1 == b \div Half
        b0 == b % Half
    IN  a1 * b1 # 0 \/ ((a0 * b0) \div Half) + a1 * b0 + a0 * b1 >= Half

\* swrast::RenderContext::new; the buffer takes (width * height) as usize
\* pixels, a u32 product (the sizes of these sessions are far from wrapping).
SwRastNew(d, s, w, h) ==
    LET cur == glCurrent[ThreadOf(d)] IN
    IF w = 0 \/ h = 0
    THEN Effect("invalid_input", slot[d], renderer[d], surf[s], FALSE, cur,
                FALSE, FALSE, 0, 0)
    ELSE Effect("ok", slot[d], renderer[d], WrappingMul(w, h), FALSE, cur,
                TRUE, FALSE, 0, 0)

\* wgpu_backend::RenderContext::new; configure() of a zero-sized surface is
\* the driver's to accept or to reject with a panic.
WgpuNew(d, s, w, h, nat) ==
    LET cur == glCurrent[ThreadOf(d)] IN
    IF (w = 0 \/ h = 0) /\ ~nat.configure
    THEN Effect("panic", slot[d], renderer[d], surf[s], TRUE, cur,
                FALSE, FALSE, 0, 0)
    ELSE Effect("ok", slot[d], renderer[d], surf[s], TRUE, cur,
                TRUE, FALSE, 0, 0)

\* web_gl::RenderContext::new
WebGlNew(d, s, w, h) ==
    Effect("ok", slot[d], renderer[d], surf[s], FALSE,
           glCurrent[ThreadOf(d)], TRUE, FALSE, 0, 0)

BackendNew(d, s, w, h, nat) ==
    CASE dispBackend[d] = "DesktopGl" -> GlNewImpl(d, s, w, h, nat)
      [] dispBackend[d] = "SwRast"    -> SwRastNew(d, s, w, h)
      [] dispBackend[d] = "Wgpu"      -> WgpuNew(d, s, w, h, nat)
      [] dispBackend[d] = "WebGl"     -> WebGlNew(d, s, w, h)

\* The match on (display.dispatch, surface.dispatch) of new and new_unchecked.
Dispatch(d, s, w, h, nat) ==
    IF dispBackend[d] = SurfBackend(s)
    THEN [called |-> TRUE, e |-> BackendNew(d, s, w, h, nat)]
    ELSE [called |-> FALSE,
          e |-> Effect("invalid_input", slot[d], renderer[d], surf[s], FALSE,
                       glCurrent[ThreadOf(d)], FALSE, FALSE, 0, 0)]

Op(opname, d, check, res, called, rs, took, unmade, wrote) ==
    [op |-> opname, display |-> d, checked |-> check, result |-> res,
     backend_called |-> called, resized |-> rs, took |-> took,
     unmade |-> unmade, wrote |-> wrote, tag |-> "none", presented |-> FALSE]

\* &mut borrows: a Display or Surface held by a live session cannot be passed.
Borrowed(s) == \E d \in Displays : session[d].live /\ session[d].surface = s
CanPass(d, s) ==
    /\ ~aborted
    /\ ThreadOf(d) = ThreadOf(s)
    /\ ~session[d].live
    /\ ~Borrowed(s)

\* The state after the dispatch of new / new_unchecked returned r.
Constructed(d, s, r, check, opname) ==
    /\ slot' = [slot EXCEPT ![d] = r.e.slot]
    /\ renderer' = [renderer EXCEPT ![d] = r.e.renderer]
    /\ surf' = [surf EXCEPT ![s] = r.e.surf]
    /\ glCurrent' = [glCurrent EXCEPT ![ThreadOf(d)] = r.e.cur]
    /\ session' = [session EXCEPT ![d] =
           IF r.e.live
           THEN [live |-> TRUE, surface |-> s, check_context |-> check,
                 scope |-> dispBackend[d] = "DesktopGl",
                 finished |-> FALSE, err |-> FALSE, mismatch |-> FALSE]
           ELSE NoSession]
    /\ aborted' = (r.e.res = "abort")
    /\ lastOp' = Op(opname, d, check, r.e.res, r.called, r.e.resized, r.e.took,
                     r.e.unmade, r.e.wrote)

\* Faulty variants: a replace that does not write, a test that never rejects.
LockSkipped(flags, t) == flags
RejectsNever(prev) == FALSE

\* has_context.replace(true): the write, and the test of the previous value
Lock(flags, t) == [flags EXCEPT ![t] = TRUE]

Rejects(prev) == prev

\* RenderContext::new
RenderContextNew(d, s, w, h, nat) ==
    /\ CanPass(d, s)
    /\ LET t == ThreadOf(d)
           prev == HAS_CONTEXT[t]
       IN  /\ HAS_CONTEXT' = Lock(HAS_CONTEXT, t)
           /\ IF Rejects(prev)
              THEN /\ lastOp' = Op("new", d, TRUE, "concurrency", FALSE, FALSE, FALSE, 0, 0)
                   /\ UNCHANGED <<slot, renderer, surf, glCurrent, session, aborted>>
              ELSE Constructed(d, s, Dispatch(d, s, w, h, nat), TRUE, "new")
    /\ UNCHANGED <<buildVars, made, drawVars, resources, dispBackend, dispThread>>

\* RenderContext::new_unchecked
RenderContextNewUnchecked(d, s, w, h, nat) ==
    /\ CanPass(d, s)
    /\ Constructed(d, s, Dispatch(d, s, w, h, nat), FALSE, "new_unchecked")
    /\ UNCHANGED <<buildVars, made, drawVars, resources, dispBackend, dispThread, HAS_CONTEXT>>

\* A faulty variant: a Drop that clears the flag for unchecked sessions too.
UnlockAlways(flags, t, check_context) == [flags EXCEPT ![t] = FALSE]

\* Drop for RenderContext: the flag of a checked session is cleared
Unlock(flags, t, check_context) ==
    IF check_context THEN [flags EXCEPT ![t] = FALSE] ELSE flags

\* Dropping a session: Drop for RenderContext, then its fields, of which the
\* GL context's ContextScope is the one with an effect on shared state.
Drop(d, nat) ==
    /\ ~aborted
    /\ session[d].live
    /\ LET t == ThreadOf(d)
           sd == IF session[d].scope
                 THEN ContextScopeDrop(glCurrent[t], nat)
                 ELSE [slot |-> slot[d], cur |-> glCurrent[t], unmade |-> 0,
                       wrote |-> 0, panicked |-> FALSE]
       IN  /\ HAS_CONTEXT' = Unlock(HAS_CONTEXT, t, session[d].check_context)
           /\ slot' = [slot EXCEPT ![d] = sd.slot]
           /\ glCurrent' = [glCurrent EXCEPT ![t] = sd.cur]
           /\ session' = [session EXCEPT ![d] = NoSession]
           /\ lastOp' = Op("drop", d, session[d].check_context,
                            IF sd.panicked THEN "panic" ELSE "ok",
                            FALSE, FALSE, FALSE, sd.unmade, sd.wrote)
    /\ UNCHANGED <<buildVars, made, drawVars, resources, dispBackend, dispThread, renderer, surf, aborted>>

\* Faulty variants: a check that never fails, and a check that ignores the
\* session's check_current flag.
CheckCurrentNever(d) == TRUE
CheckCurrentUnflagged(d) ==
    ~(dispBackend[d] = "DesktopGl" /\ glCurrent[ThreadOf(d)] # d)

\* desktop_gl::RenderContext::check_current
CheckCurrent(d) ==
    ~(dispBackend[d] = "DesktopGl" /\ session[d].check_context
      /\ glCurrent[ThreadOf(d)] # d)

\* The session operations by the way the GL backend guards them: the ones
\* that return nothing go through not_current(), the ones that return a
\* Result through check_current()?; transform and status are not guarded.
VoidOps ==
    {"clear", "stroke", "stroke_styled", "fill", "fill_even_odd", "clip",
     "draw_text", "draw_image", "draw_image_area", "blurred_rect"}
ResultOps ==
    {"gradient", "save", "restore", "make_image", "capture_image_area"}

\* A drawing call that returns nothing.  A GL session whose check fails
\* stores the error in current_mismatch and returns; otherwise the backend's
\* renderer runs, and keeps a failure of its own for status().
GuardedCall(d, opname, nat, tag) ==
    /\ ~aborted
    /\ session[d].live
    /\ IF CheckCurrent(d)
       THEN /\ session' = [session EXCEPT ![d].err = @ \/ ~nat.draw]
            /\ lastOp' = [Op(opname, d, session[d].check_context, "ok",
                              TRUE, FALSE, FALSE, 0, 0) EXCEPT !.tag = tag]
       ELSE /\ session' = [session EXCEPT ![d].mismatch = TRUE]
            /\ lastOp' = [Op(opname, d, session[d].check_context, "ok",
                              FALSE, FALSE, FALSE, 0, 0) EXCEPT !.tag = tag]
    /\ UNCHANGED <<buildVars, made, drawVars, resources, HAS_CONTEXT, dispBackend, dispThread, slot, renderer, surf,
                   glCurrent, aborted>>

VoidCall(d, opname, nat) == GuardedCall(d, opname, nat, "none")

Fill(d, nat) == VoidCall(d, "fill", nat)

\* A call that returns a Result.  A GL session whose check fails returns the
\* error to the caller, and current_mismatch stays as it is.
ResultCall(d, opname, nat) ==
    /\ ~aborted
    /\ session[d].live
    /\ lastOp' = IF CheckCurrent(d)
                 THEN Op(opname, d, session[d].check_context,
                         IF nat.draw THEN "ok" ELSE "backend_error",
                         TRUE, FALSE, FALSE, 0, 0)
                 ELSE Op(opname, d, session[d].check_context, "not_current",
                         FALSE, FALSE, FALSE, 0, 0)
    /\ UNCHANGED <<buildVars, made, drawVars, resources, HAS_CONTEXT, dispBackend, dispThread, slot, renderer, surf,
                   session, glCurrent, aborted>>

\* finish(): the software rasterizer always hands its buffer to the window;
\* the GL session checks that its context is current, flushes and swaps the
\* buffers; the wgpu and WebGL sessions only flush (inner.finish()).
Presents(backend) == backend \in {"SwRast", "DesktopGl"}

Finish(d, nat) ==
    /\ ~aborted
    /\ session[d].live
    /\ LET ok == IF dispBackend[d] = "SwRast" THEN TRUE
                 ELSE CheckCurrent(d) /\ nat.draw
       IN  /\ session' = [session EXCEPT ![d].finished = @ \/ ok]
           /\ lastOp' = [Op("finish", d, session[d].check_context,
                             IF ok THEN "ok"
                             ELSE IF CheckCurrent(d) THEN "backend_error"
                             ELSE "not_current",
                             CheckCurrent(d), FALSE, FALSE, 0, 0)
                          EXCEPT !.presented = ok /\ Presents(dispBackend[d])]
    /\ UNCHANGED <<buildVars, made, drawVars, resources, HAS_CONTEXT, dispBackend, dispThread, slot, renderer, surf,
                   glCurrent, aborted>>

\* Brush and Image carry the tag of the backend whose session made them.
BrushOps == {"stroke", "stroke_styled", "fill", "fill_even_odd", "blurred_rect"}
ImageOps == {"draw_image", "draw_image_area"}

\* A faulty variant: a match whose arms take any resource.
TagsAgreeAlways(ctx, res) == TRUE

\* The arms (ContextDispatch::$name(ctx), BrushDispatch::$name(brush))
TagsAgree(ctx, res) == ctx = res

\* A drawing call with a Brush or an Image: the match on the two dispatch
\* tags; the arm `_ => unreachable!()` panics.
TaggedCall(d, opname, tag, nat) ==
    IF TagsAgree(dispBackend[d], tag)
    THEN GuardedCall(d, opname, nat, tag)
    ELSE /\ ~aborted
         /\ session[d].live
         /\ lastOp' = [Op(opname, d, session[d].check_context, "panic",
                           FALSE, FALSE, FALSE, 0, 0) EXCEPT !.tag = tag]
         /\ UNCHANGED <<buildVars, made, drawVars, resources, HAS_CONTEXT, dispBackend, dispThread, slot, renderer,
                        surf, session, glCurrent, aborted>>

\* The calls that return a Brush or an Image.
BrushMakers == {"solid_brush", "gradient"}
ImageMakers == {"make_image", "capture_image_area"}
Kind(opname) ==
    IF opname \in BrushMakers \cup BrushOps THEN "Brush" ELSE "Image"

\* A faulty variant: every resource wrapped as the first backend's.
MakeTagFirst(backend) == "DesktopGl"

\* BrushDispatch::$name(brush).into() / ImageDispatch::$name(img).into() in
\* the arm ContextDispatch::$name(ctx)
MakeTag(backend) == backend

\* solid_brush, gradient, make_image, capture_image_area: the backend makes
\* the resource and lib.rs wraps it; solid_brush cannot fail, the others
\* return the backend's error (for GL, the context check's) and no resource.
MakeResource(d, opname, nat) ==
    /\ ~aborted
    /\ session[d].live
    /\ LET res == IF opname = "solid_brush" THEN "ok"
                  ELSE IF ~CheckCurrent(d) THEN "not_current"
                  ELSE IF nat.draw THEN "ok" ELSE "backend_error"
       IN  /\ lastOp' = [Op(opname, d, session[d].check_context, res,
                             res # "not_current", FALSE, FALSE, 0, 0)
                          EXCEPT !.tag = MakeTag(dispBackend[d])]
           /\ resources' =
                IF res = "ok"
                THEN resources \cup {[kind |-> Kind(opname),
                                      tag |-> MakeTag(dispBackend[d]),
                                      maker |-> d]}
                ELSE resources
    /\ UNCHANGED <<buildVars, made, drawVars, HAS_CONTEXT, dispBackend, dispThread,
                   slot, renderer, surf, session, glCurrent, aborted>>

\* A drawing call with a resource that a session returned.
UseResource(d, opname, r, nat) ==
    /\ r \in resources
    /\ r.kind = Kind(opname)
    /\ TaggedCall(d, opname, r.tag, nat)

\* TextLayoutInner: the variant a backend's Text builds.
LayoutTag(backend) ==
    CASE backend \in {"DesktopGl", "WebGl"} -> "Glow"
      [] backend = "Wgpu" -> "Wgpu"
      [] backend = "SwRast" -> "Cosmic"

\* draw_text(): lib.rs hands the layout to the backend; the GL session
\* checks its context first; GL, WebGL and wgpu panic on a layout of another
\* kind, and the software rasterizer logs a warning and returns.
DrawText(d, ltag, nat) ==
    /\ ~aborted
    /\ session[d].live
    /\ LET op(res, called) ==
               [Op("draw_text", d, session[d].check_context, res, called,
                   FALSE, FALSE, 0, 0) EXCEPT !.tag = ltag]
       IN  CASE ~CheckCurrent(d) ->
                  /\ session' = [session EXCEPT ![d].mismatch = TRUE]
                  /\ lastOp' = op("ok", FALSE)
             [] CheckCurrent(d) /\ ltag = LayoutTag(dispBackend[d]) ->
                  /\ session' = [session EXCEPT ![d].err = @ \/ ~nat.draw]
                  /\ lastOp' = op("ok", TRUE)
             [] CheckCurrent(d) /\ ltag # LayoutTag(dispBackend[d])
                  /\ dispBackend[d] = "SwRast" ->
                  /\ lastOp' = op("ok", FALSE)
                  /\ UNCHANGED session
             [] OTHER ->
                  /\ lastOp' = op("panic", FALSE)
                  /\ UNCHANGED session
    /\ UNCHANGED <<buildVars, made, drawVars, resources, HAS_CONTEXT, dispBackend, dispThread, slot, renderer, surf,
                   glCurrent, aborted>>

\* transform(): no backend checks anything; the renderer's top frame takes
\* the transform.
TransformCall(d) ==
    /\ ~aborted
    /\ session[d].live
    /\ lastOp' = Op("transform", d, session[d].check_context, "ok",
                     TRUE, FALSE, FALSE, 0, 0)
    /\ UNCHANGED <<buildVars, made, drawVars, resources, HAS_CONTEXT, dispBackend, dispThread, slot, renderer, surf,
                   session, glCurrent, aborted>>

\* status(): the renderer's stored error and current_mismatch are both taken;
\* status.and(mismatch) returns the renderer's error when there is one.
Status(d) ==
    /\ ~aborted
    /\ session[d].live
    /\ session' = [session EXCEPT ![d].err = FALSE, ![d].mismatch = FALSE]
    /\ lastOp' = Op("status", d, session[d].check_context,
                     IF session[d].err THEN "backend_error"
                     ELSE IF session[d].mismatch THEN "not_current"
                     ELSE "ok",
                     TRUE, FALSE, FALSE, 0, 0)
    /\ UNCHANGED <<buildVars, made, drawVars, resources, HAS_CONTEXT, dispBackend, dispThread, slot, renderer, surf,
                   glCurrent, aborted>>

(***************************************************************************)
(* The software rasterizer's drawing state stack                           *)
(***************************************************************************)

MaxDepth == 3

\* Geometry on a line: coordinates are counted modulo the number of Points,
\* and the surface covers Pixels, so one point lies off the surface.
Points == {0, 1, 2}
Pixels == {0, 1}
Shapes == SUBSET Points
Wrap(x) == x % Cardinality(Points)

\* kurbo::Affine on the line: x |-> a * x + b
Affines == [a : Points, b : Points]
IDENTITY == [a |-> 1, b |-> 0]
AffineApply(t, x) == Wrap(t.a * x + t.b)
\* Mul for Affine: (s * t)(x) = s(t(x))
AffineMul(s, t) == [a |-> Wrap(s.a * t.a), b |-> Wrap(s.a * t.b + s.b)]
Image(t, shape) == {AffineApply(t, x) : x \in shape}
\* The maps that keep the origin, closed under AffineMul.
Reflections == {t \in Affines : t.a # 0 /\ t.b = 0}

\* Option<ClipMask>
NoClip == [some |-> FALSE, mask |-> {}]
SomeClip(m) == [some |-> TRUE, mask |-> m]

\* RenderState and its Default
DefaultRenderState == [transform |-> IDENTITY, clip |-> NoClip]

current_state == render_states[Len(render_states)]
current_transform == current_state.transform
\* The pixels a frame lets a drawing call change.
ClipRegion(frame) == IF frame.clip.some THEN frame.clip.mask ELSE Pixels

\* tiny-skia pixels: the premultiplied bytes r, g, b, a in memory order
TRANSPARENT == <<0, 0, 0, 0>>
WHITE == <<255, 255, 255, 255>>
BLACK == <<0, 0, 0, 255>>
RED == <<255, 0, 0, 255>>
OpaqueColors == {WHITE, BLACK, RED}

\* A faulty variant: the paint laid under what is there.
DestinationOver(src, dst) == IF dst[4] = 0 THEN src ELSE dst

\* BlendMode::SourceOver, the Paint default, for a source that is opaque or
\* has no opacity at all
SourceOver(src, dst) == IF src[4] = 0 THEN dst ELSE src

\* The session's size when none is open, and the size of the surface the
\* drawing calls of this model work on: the Pixels in one row.
NoSize == <<0, 0>>
SurfaceSize == <<Cardinality(Pixels), 1>>
SessionOpen == size # NoSize

\* Vec::new() and resize(len, 0): pixels of zero bytes
Zeroed == [p \in Pixels |-> TRANSPARENT]
NothingShown == [some |-> FALSE, px |-> Zeroed]

\* fill_path / fill_rect / stroke_path: the paint blended on the pixels
Blended(buf, pixels, brush) ==
    [buf EXCEPT !.px = [p \in Pixels |->
        IF p \in pixels /\ p < buf.len THEN SourceOver(brush, buf.px[p])
        ELSE buf.px[p]]]

\* PixmapMut::fill: every pixel set to the color
Filled(buf, color) ==
    [buf EXCEPT !.px = [p \in Pixels |-> IF p < buf.len THEN color ELSE @[p]]]

NoPair == [n |-> 0, t1 |-> IDENTITY, t2 |-> IDENTITY]
\* lastCall: the call, its transform or geometry, what it returned, the
\* pixels it changed, and whether it filled the buffer as a whole.
Call(opname, arg, shape, res, painted) ==
    [op |-> opname, arg |-> arg, shape |-> shape, result |-> res,
     painted |-> painted, whole |-> FALSE, brush |-> TRANSPARENT]

DrawingPrimitives ==
    {"clear", "fill", "fill_even_odd", "stroke", "stroke_styled", "draw_image",
     "draw_image_area", "draw_text", "blurred_rect"}

\* history: the first error stored since the last status(), and how far the
\* calls since the session was opened have followed save(), transform(t),
\* fill(shape), restore(), fill(shape), with t, the shape and the pixels of
\* the first fill; how far they have followed clear(None, WHITE), fill of the
\* pixel at the origin with BLACK, finish(); and what the session before
\* this one held when it was dropped.
NothingLeft == [depth |-> 0, error |-> "ok", top |-> DefaultRenderState]
NoHistory ==
    [first |-> "ok", step |-> 0, t |-> IDENTITY, shape |-> {}, painted |-> {},
     rendered |-> 0, left |-> NothingLeft]

Followed(call) ==
    CASE call.op = "save" /\ render_states = <<DefaultRenderState>> ->
           [NoHistory EXCEPT !.step = 1]
      [] call.op = "transform" /\ history.step = 1 ->
           [history EXCEPT !.step = 2, !.t = call.arg]
      [] call.op = "fill" /\ call.result = "ok" /\ history.step = 2 ->
           [history EXCEPT !.step = 3, !.shape = call.shape,
                           !.painted = call.painted]
      [] call.op = "restore" /\ history.step = 3 ->
           [history EXCEPT !.step = 4]
      [] call.op = "fill" /\ call.result = "ok" /\ history.step = 4
           /\ call.shape = history.shape ->
           [history EXCEPT !.step = 5]
      [] OTHER -> NoHistory

Rendered(call) ==
    CASE call.op = "clear" /\ call.whole /\ call.brush = WHITE
           /\ render_states = <<DefaultRenderState>> -> 1
      [] call.op = "fill" /\ call.result = "ok" /\ call.brush = BLACK
           /\ call.shape = {0} /\ history.rendered = 1 -> 2
      [] call.op = "finish" /\ history.rendered = 2 -> 3
      [] OTHER -> 0

\* A call on the open session (&mut self), noted in lastCall and history.
Did(call) ==
    /\ SessionOpen
    /\ lastCall' = call
    /\ history' =
         [Followed(call) EXCEPT
            !.first =
                IF call.op = "status" THEN "ok"
                ELSE IF call.op \in DrawingPrimitives /\ call.result # "ok"
                        /\ history.first = "ok"
                THEN call.result
                ELSE history.first,
            !.rendered = Rendered(call),
            !.left = history.left]

\* Faulty variants: a failure that is not stored, and a status() that
\* leaves the error in its slot.
LeapDropped(old, err) == old
TakenKept(stored) == stored

\* leap!: $self.last_error = Err(err)
Leap(old, err) == err
\* mem::replace(&mut self.last_error, Ok(()))
Taken(stored) == "ok"

\* piet::ImageFormat, and the bytes one pixel takes in the caller's buffer
ImageFormats == {"RgbaPremul", "RgbaSeparate", "Rgb", "Grayscale"}
BytesPerPixel(format) ==
    CASE format = "Grayscale" -> 1
      [] format = "Rgb" -> 3
      [] OTHER -> 4

\* bytemuck::cast_slice / cast_slice_mut to [u8; n]: panics when the bytes do
\* not divide into n-byte elements
CastSlop(len, n) == len % n # 0

\* make_image: the length of the premultiplied RGBA buffer built from buf
Premultiplied(len, format) ==
    CASE format = "Rgb" -> (len \div 3) * 4
      [] format = "Grayscale" -> len * 4
      [] OTHER -> len

\* IntSize::from_wh is None for a zero side; Pixmap::from_vec is None when
\* the data is not four bytes for each pixel of the size.
MakeImage(width, height, len, format) ==
    IF format \in {"RgbaSeparate", "Rgb"} /\ CastSlop(len, BytesPerPixel(format))
    THEN "panic"
    ELSE IF format \notin ImageFormats THEN "NotSupported"
    ELSE IF width = 0 \/ height = 0 THEN "InvalidInput"
    ELSE IF Premultiplied(len, format) # width * height * 4 THEN "InvalidInput"
    ELSE "ok"

NotMade ==
    [done |-> FALSE, width |-> 0, height |-> 0, len |-> 0,
     format |-> "RgbaPremul", result |-> "ok"]

\* make_image(width, height, buf, format): the session is left as it is
make_image(width, height, len, format) ==
    /\ SessionOpen
    /\ made' = [done |-> TRUE, width |-> width, height |-> height, len |-> len,
                format |-> format,
                result |-> MakeImage(width, height, len, format)]
    /\ UNCHANGED <<buildVars, openVars, drawVars>>

\* swrast::RenderContext::new: one default frame, no error
FreshContext ==
    /\ render_states = <<DefaultRenderState>>
    /\ lastError = "ok"
    /\ marks = <<>>
    /\ twoTransforms = NoPair
    /\ lastCall = Call("none", IDENTITY, {}, "ok", {})
    /\ history = NoHistory
    /\ size = SurfaceSize
    /\ buffer = [len |-> Cardinality(Pixels), px |-> Zeroed]
    /\ shown = NothingShown
    /\ made = NotMade

\* A faulty variant: a session that takes over the frames it finds.
InitialStatesKept == render_states

\* TinyVec::from([Default::default()])
InitialStates == <<DefaultRenderState>>

\* surface.buffer.resize(len, 0): the pixels there are stay, the new ones
\* are zero
Resized(buf, len) ==
    [len |-> len,
     px |-> [p \in Pixels |->
               IF p < len /\ p < buf.len THEN buf.px[p] ELSE TRANSPARENT]]

\* PixmapMut::from_bytes(bytes, width, height): Some when the bytes are
\* those of width * height pixels
PixmapFits(len, width, height) ==
    width # 0 /\ height # 0 /\ len % width = 0 /\ len \div width = height

\* swrast::RenderContext::new on the Display and the Surface, which no
\* session borrows.  width * height is a u32 product: a build with overflow
\* checks panics when it leaves the 32 bits, a build without them wraps.
swrast_new(width, height, overflow_checks) ==
    /\ ~SessionOpen
    /\ LET res == IF width = 0 \/ height = 0 THEN "InvalidInput"
                  ELSE IF overflow_checks /\ Overflows(width, height)
                  THEN "panic"
                  ELSE "ok"
       IN  /\ lastCall' = Call("new", IDENTITY, {}, res, {})
           /\ IF res = "ok"
              THEN /\ buffer' = Resized(buffer, WrappingMul(width, height))
                   /\ size' = <<width, height>>
                   /\ lastError' = "ok"
                   /\ render_states' = InitialStates
                   /\ marks' = <<>>
                   /\ twoTransforms' = NoPair
                   /\ history' =
                        [NoHistory EXCEPT !.left =
                            [depth |-> Len(render_states), error |-> lastError,
                             top |-> current_state]]
              ELSE UNCHANGED <<buffer, size, lastError, render_states, marks,
                               twoTransforms, history>>
    /\ UNCHANGED <<buildVars, made, openVars, shown>>

\* Dropping the session: its fields go, the Surface and its buffer stay.
drop ==
    /\ SessionOpen
    /\ size' = NoSize
    /\ lastCall' = Call("drop", IDENTITY, {}, "ok", {})
    /\ UNCHANGED <<buildVars, made, openVars, shown, buffer, lastError,
                   render_states, marks, twoTransforms, history>>

\* drawing_parts(): the pixel view of size.0 by size.1 over the buffer, which
\* clear, fill, stroke, clip, transform and the image calls take first;
\* .expect("There should be no way to create a pixmap with invalid
\* parameters") panics without one, and the unwinding drops the session.
drawing_parts(opname, call) ==
    IF PixmapFits(buffer.len, size[1], size[2])
    THEN call
    ELSE /\ SessionOpen
         /\ lastCall' = Call(opname, IDENTITY, {}, "panic", {})
         /\ size' = NoSize
         /\ UNCHANGED <<buildVars, made, openVars, shown, buffer, lastError,
                        render_states, marks, twoTransforms, history>>

\* save(): self.render_states.push(Default::default())
save ==
    /\ Len(render_states) < MaxDepth
    /\ render_states' = Append(render_states, DefaultRenderState)
    /\ marks' = Append(marks, IF render_states = <<>> THEN DefaultRenderState
                              ELSE current_state)
    /\ twoTransforms' = NoPair
    /\ Did(Call("save", IDENTITY, {}, "ok", {}))
    /\ UNCHANGED <<buildVars, made, openVars, size, shown, buffer, lastError>>

\* Faulty variants: a test that lets the base frame go, and a pop that
\* takes the frame below the top one.
UnbalancedOnEmpty(n) == n <= 0
PopBelow(states) ==
    IF Len(states) <= 1 THEN <<>>
    ELSE SubSeq(states, 1, Len(states) - 2) \o <<states[Len(states)]>>

\* A faulty variant: a restore that leaves the top frame where it is.
PopKept(states) == states

\* restore(): if self.render_states.len() <= 1
Unbalanced(n) == n <= 1
\* Vec::pop
Pop(states) == SubSeq(states, 1, Len(states) - 1)

restore ==
    /\ IF Unbalanced(Len(render_states))
       THEN /\ Did(Call("restore", IDENTITY, {}, "StackUnbalance", {}))
            /\ UNCHANGED <<render_states, marks>>
       ELSE /\ render_states' = Pop(render_states)
            /\ marks' = SubSeq(marks, 1, Len(marks) - 1)
            /\ Did(Call("restore", IDENTITY, {}, "ok", {}))
    /\ twoTransforms' = NoPair
    /\ UNCHANGED <<buildVars, made, openVars, size, shown, buffer, lastError>>

\* A faulty variant: the product taken the other way round.
ComposeRight(t, old) == AffineMul(old, t)

\* transform(): state.transform = transform * state.transform
Compose(t, old) == AffineMul(t, old)

\* drawing_parts() expects a frame: .expect(STACK_UNBALANCE)
transform(t) ==
    /\ render_states # <<>>
    /\ render_states' = [render_states EXCEPT ![Len(render_states)].transform =
                             Compose(t, @)]
    /\ twoTransforms' =
         IF twoTransforms.n = 1
         THEN [twoTransforms EXCEPT !.n = 2, !.t2 = t]
         ELSE IF current_transform = IDENTITY
         THEN [n |-> 1, t1 |-> t, t2 |-> IDENTITY]
         ELSE NoPair
    /\ Did(Call("transform", t, {}, "ok", {}))
    /\ UNCHANGED <<buildVars, made, openVars, size, shown, buffer, lastError, marks>>

\* clip(): intersect_path on the mask in force, or set_path on a new mask of
\* the surface's size
Narrowed(old, path) ==
    IF old.some THEN SomeClip(old.mask \cap path)
    ELSE SomeClip(path \cap Pixels)

\* A faulty variant: a path built from the shape as it was given.
ClipPathUntransformed(t, shape) == shape

\* convert_shape(&mut builder, shape, tolerance, Some(transform))
ClipPath(t, shape) == Image(t, shape)

\* clip(): the shape goes through the top frame's transform; an empty path
\* returns with the clip as it was.
clip(shape) ==
    /\ render_states # <<>>
    /\ LET path == ClipPath(current_transform, shape) IN
       render_states' =
           IF path = {} THEN render_states
           ELSE [render_states EXCEPT ![Len(render_states)].clip =
                     Narrowed(@, path)]
    /\ twoTransforms' = NoPair
    /\ Did(Call("clip", IDENTITY, shape, "ok", {}))
    /\ UNCHANGED <<buildVars, made, openVars, size, shown, buffer, lastError, marks>>

\* A faulty variant: a rasterizer that is handed no clip mask.
RasterizeUnclipped(t, mask, shape) == Image(t, shape) \cap Pixels

\* tiny-skia's fill_path / fill_rect / stroke_path (.., transform, clip): the
\* pixels of the surface that the transformed geometry covers and the mask,
\* if there is one, lets through.
Rasterize(t, mask, shape) ==
    Image(t, shape) \cap (IF mask.some THEN mask.mask ELSE Pixels)

\* A drawing call through the top frame: it paints, or it fails and stores
\* the error.
Draw(opname, shape, brush, ok) ==
    /\ render_states # <<>>
    /\ LET state == current_state
           pixels == Rasterize(state.transform, state.clip, shape)
       IN  IF ok
           THEN /\ Did([Call(opname, IDENTITY, shape, "ok", pixels)
                           EXCEPT !.brush = brush])
                /\ buffer' = Blended(buffer, pixels, brush)
                /\ UNCHANGED lastError
           ELSE /\ Did([Call(opname, IDENTITY, shape, "BackendError", {})
                           EXCEPT !.brush = brush])
                /\ lastError' = Leap(lastError, "BackendError")
                /\ UNCHANGED buffer
    /\ UNCHANGED <<buildVars, made, openVars, size, shown, render_states, marks,
                   twoTransforms>>

\* fill_rect(): fails when the rectangle does not convert or does not fill
fill_rect(opname, rect, shader, ok) == Draw(opname, rect, shader, ok /\ rect # {})

\* fill_impl(): leap! on the brush's shader and on an empty path
fill_impl(opname, shape, brush, ok) ==
    Draw(opname, shape, brush, ok /\ shape # {})

fill(shape, brush, ok) == fill_impl("fill", shape, brush, ok)
fill_even_odd(shape, brush, ok) == fill_impl("fill_even_odd", shape, brush, ok)

\* stroke_styled(): as fill_impl, through stroke_path
stroke_styled(opname, shape, brush, ok) ==
    Draw(opname, shape, brush, ok /\ shape # {})
stroke(shape, brush, ok) == stroke_styled("stroke", shape, brush, ok)

\* clear(): with a region or a clip in force a fill_rect of the region (of
\* the whole surface when there is none); otherwise the whole buffer is
\* filled, whatever the transform.
clear(region, color, ok) ==
    IF region.some \/ current_state.clip.some
    THEN fill_rect("clear", IF region.some THEN region.rect ELSE Pixels, color,
                   ok)
    ELSE /\ render_states # <<>>
         /\ Did([Call("clear", IDENTITY, Pixels, "ok", Pixels)
                    EXCEPT !.whole = TRUE, !.brush = color])
         /\ buffer' = Filled(buffer, color)
         /\ UNCHANGED <<buildVars, made, openVars, size, shown, render_states,
                        lastError, marks, twoTransforms>>
Regions == {[some |-> FALSE, rect |-> {}]} \cup [some : {TRUE}, rect : Shapes]

\* draw_image_area(): a fill_rect of dst_rect with the image as pattern
draw_image_area(opname, pattern, dst_rect) ==
    /\ dst_rect # {}
    /\ Draw(opname, dst_rect, pattern, TRUE)
draw_image(pattern, dst_rect) == draw_image_area("draw_image", pattern, dst_rect)

\* draw_text(): the glyphs and the lines of a layout of this backend; a
\* layout of another backend draws nothing.
draw_text(glyphs, color, own) ==
    Draw("draw_text", IF own THEN glyphs ELSE {}, color, TRUE)

\* blurred_rect(): self.last_error = Err(Error::NotSupported)
blurred_rect(rect) ==
    /\ Did(Call("blurred_rect", IDENTITY, rect, "NotSupported", {}))
    /\ lastError' = "NotSupported"
    /\ UNCHANGED <<buildVars, made, openVars, size, shown, buffer, render_states, marks, twoTransforms>>

\* finish(): let [r, g, b, _] = pixel.to_ne_bytes();
\* *pixel = (b as u32) | ((g as u32) << 8) | ((r as u32) << 16), as the
\* bytes of the pixel in memory on a little-endian target
Xrgb(pixel) == <<pixel[3], pixel[2], pixel[1], 0>>
\* The red, green and blue that the window reads in a 0RGB pixel.
Channels(pixel) == <<pixel[3], pixel[2], pixel[1]>>

\* finish(): every pixel of the buffer is converted in place, and the buffer
\* goes to the window (set_buffer).
finish ==
    /\ Did(Call("finish", IDENTITY, {}, "ok", {}))
    /\ LET converted ==
               [p \in Pixels |->
                  IF p < buffer.len THEN Xrgb(buffer.px[p]) ELSE buffer.px[p]]
       IN  /\ buffer' = [buffer EXCEPT !.px = converted]
           /\ shown' = [some |-> TRUE,
                        px |-> [p \in Pixels |-> Channels(converted[p])]]
    /\ UNCHANGED <<buildVars, made, openVars, size, lastError, render_states,
                   marks, twoTransforms>>

\* status(): mem::replace(&mut self.last_error, Ok(()))
status ==
    /\ Did(Call("status", IDENTITY, {}, lastError, {}))
    /\ lastError' = Taken(lastError)
    /\ UNCHANGED <<buildVars, made, openVars, size, shown, buffer, render_states, marks, twoTransforms>>

(***************************************************************************)
(* Specifications                                                          *)
(***************************************************************************)

IdleSessions ==
    /\ HAS_CONTEXT = [t \in Threads |-> FALSE]
    /\ slot = [d \in Displays |-> dispBackend[d] = "DesktopGl"]
    /\ renderer = [d \in Displays |-> FALSE]
    /\ surf = [s \in Displays |-> 0]
    /\ session = [d \in Displays |-> NoSession]
    /\ glCurrent = [t \in Threads |-> 0]
    /\ aborted = FALSE
    /\ lastOp = NoOp
    /\ resources = {}
    /\ FreshContext

InitBuild ==
    /\ cfg \in Configs
    /\ builder = DefaultBuilder
    /\ built = NotBuilt
    /\ dispBackend = [d \in Displays |-> "SwRast"]
    /\ dispThread = [d \in Displays |-> 1]
    /\ IdleSessions

NextBuild ==
    \/ New
    \/ Window
    \/ GlxErrorHook
    \/ Transparent
    \/ ForceSwrast
    \/ Build

SpecBuild == InitBuild /\ [][NextBuild]_vars

\* The configurations sessions are explored under (glx only matters to build).
SessionConfigs ==
    {c \in Configs : c.glx = "no" /\ (c.wgpu <=> c.gl = "none")}

\* Sessions never read cfg: when every Display is a SwRast one, one build
\* stands for the others.  The Displays of a thread are listed with the
\* SwRast ones last.
Init ==
    /\ cfg \in SessionConfigs
    /\ builder = DefaultBuilder
    /\ built = NotBuilt
    /\ dispThread \in Placements
    /\ dispBackend \in [Displays -> BuildableBackends(cfg)]
    /\ (\A d \in Displays : dispBackend[d] = "SwRast") => cfg.wgpu
    /\ \A d \in Displays :
         (d > 1 /\ dispThread[d] = dispThread[d - 1]
                /\ dispBackend[d - 1] = "SwRast") => dispBackend[d] = "SwRast"
    /\ IdleSessions

Next ==
    \/ \E d \in Displays, s \in Displays, p \in DimPairs : \E nat \in OpenNatives(d, s, p[1], p[2], TRUE) :
         RenderContextNew(d, s, p[1], p[2], nat)
    \/ \E d \in Displays, s \in Displays, p \in DimPairs : \E nat \in OpenNatives(d, s, p[1], p[2], FALSE) :
         RenderContextNewUnchecked(d, s, p[1], p[2], nat)
    \/ \E d \in Displays : \E nat \in DropNatives(d) : Drop(d, nat)

\* Threads that open and drop sessions, checked and unchecked.
Spec == Init /\ [][Next]_vars

NextChecked ==
    \/ \E d \in Displays, s \in Displays, p \in DimPairs : \E nat \in OpenNatives(d, s, p[1], p[2], TRUE) :
         RenderContextNew(d, s, p[1], p[2], nat)
    \/ \E d \in Displays : \E nat \in DrawNatives(d) : Fill(d, nat)
    \/ \E d \in Displays : \E nat \in DrawNatives(d) : Finish(d, nat)
    \/ \E d \in Displays : \E nat \in DropNatives(d) : Drop(d, nat)

\* Threads that open sessions through RenderContext::new only, draw, finish
\* and drop.
SpecChecked == Init /\ [][NextChecked]_vars

\* The sizes without pixels.
ZeroPairs == {p \in DimPairs : p[1] = 0 \/ p[2] = 0}

NextZero ==
    \/ \E d \in Displays, s \in Displays, p \in ZeroPairs : \E nat \in OpenNatives(d, s, p[1], p[2], TRUE) :
         RenderContextNew(d, s, p[1], p[2], nat)
    \/ \E d \in Displays, s \in Displays, p \in ZeroPairs : \E nat \in OpenNatives(d, s, p[1], p[2], FALSE) :
         RenderContextNewUnchecked(d, s, p[1], p[2], nat)
    \/ \E d \in Displays : \E nat \in DropNatives(d) : Drop(d, nat)

\* Sessions opened with a width or a height of zero only.
SpecZero == Init /\ [][NextZero]_vars

\* The tags of the resources the sessions of the Displays make.
ResourceTags == {dispBackend[e] : e \in Displays}
LayoutTags == {LayoutTag(dispBackend[e]) : e \in Displays}

NextTags ==
    \/ \E d \in Displays : \E nat \in OpenNatives(d, d, MaxDim, MaxDim, TRUE) :
         RenderContextNew(d, d, MaxDim, MaxDim, nat)
    \/ \E d \in Displays : \E nat \in OpenNatives(d, d, MaxDim, MaxDim, FALSE) :
         RenderContextNewUnchecked(d, d, MaxDim, MaxDim, nat)
    \/ \E op \in BrushOps \cup ImageOps, tag \in ResourceTags :
         \E nat \in DrawNatives(1) : TaggedCall(1, op, tag, nat)
    \/ \E ltag \in LayoutTags : \E nat \in DrawNatives(1) : DrawText(1, ltag, nat)
    \/ \E d \in Displays : \E nat \in DropNatives(d) : Drop(d, nat)

\* Sessions of every Display; the one of the first Display draws with the
\* brushes, images and text layouts of any of them.
SpecTags == Init /\ [][NextTags]_vars

NextResources ==
    \/ \E d \in Displays : \E nat \in OpenNatives(d, d, MaxDim, MaxDim, TRUE) :
         RenderContextNew(d, d, MaxDim, MaxDim, nat)
    \/ \E d \in {1, NumDisplays}, op \in BrushMakers \cup ImageMakers :
         \E nat \in DrawNatives(d) : MakeResource(d, op, nat)
    \/ \E op \in BrushOps \cup ImageOps, r \in resources :
         \E nat \in DrawNatives(1) : UseResource(1, op, r, nat)
    \/ \E d \in Displays : \E nat \in DropNatives(d) : Drop(d, nat)

\* The sessions of the first and of the last Display make brushes and
\* images; the sessions of the first draw with any of them.
SpecResources == Init /\ [][NextResources]_vars

\* GL Displays of one thread.
InitGl ==
    /\ cfg \in SessionConfigs
    /\ cfg.gl = "DesktopGl"
    /\ builder = DefaultBuilder
    /\ built = NotBuilt
    /\ dispThread = [d \in Displays |-> 1]
    /\ dispBackend = [d \in Displays |-> "DesktopGl"]
    /\ IdleSessions

\* Every Display opens sessions on its own surface and drops them; the
\* session of the first Display is the one operated on in between.
NextGl ==
    \/ \E d \in Displays : \E nat \in OpenNatives(d, d, MaxDim, MaxDim, TRUE) :
         RenderContextNew(d, d, MaxDim, MaxDim, nat)
    \/ \E d \in Displays : \E nat \in OpenNatives(d, d, MaxDim, MaxDim, FALSE) :
         RenderContextNewUnchecked(d, d, MaxDim, MaxDim, nat)
    \/ \E op \in VoidOps : \E nat \in DrawNatives(1) : VoidCall(1, op, nat)
    \/ \E op \in ResultOps : \E nat \in DrawNatives(1) : ResultCall(1, op, nat)
    \/ \E nat \in DrawNatives(1) : Finish(1, nat)
    \/ TransformCall(1)
    \/ Status(1)
    \/ \E d \in Displays : \E nat \in DropNatives(d) : Drop(d, nat)

\* GL sessions, checked and unchecked, of one thread, and their operations.
SpecGl == InitGl /\ [][NextGl]_vars

\* A software session, just opened on the first Display.
InitSwRast ==
    /\ cfg \in SessionConfigs
    /\ cfg.gl = "none"
    /\ builder = DefaultBuilder
    /\ built = NotBuilt
    /\ dispThread = [d \in Displays |-> 1]
    /\ dispBackend = [d \in Displays |-> "SwRast"]
    /\ IdleSessions

NextTransform ==
    \/ save
    \/ restore
    \/ \E t \in Affines : transform(t)
    \/ \E p \in Points : fill({p}, TRANSPARENT, TRUE)

\* save, restore and every transform, with points filled in between.
SpecTransform == InitSwRast /\ [][NextTransform]_vars

NextClip ==
    \/ save
    \/ restore
    \/ \E t \in Reflections : transform(t)
    \/ \E shape \in Shapes : clip(shape)

\* save, restore and clip under the transforms that keep the origin.
SpecClip == InitSwRast /\ [][NextClip]_vars

\* The geometry handed to the drawing primitives: nothing, one point, or
\* the whole line.
Drawn == {{}, Points} \cup {{p} : p \in Points}

\* The drawing primitives, on the base frame and on one saved above it.
NextDraw ==
    \/ marks = <<>> /\ save
    \/ restore
    \/ \E t \in Reflections : transform(t)
    \/ \E shape \in Shapes : clip(shape)
    \/ \E region \in Regions :
         region.rect \in Drawn /\ clear(region, TRANSPARENT, TRUE)
    \/ \E shape \in Drawn, ok \in BOOLEAN : fill(shape, TRANSPARENT, ok)
    \/ \E shape \in Drawn : fill_even_odd(shape, TRANSPARENT, TRUE)
    \/ \E shape \in Drawn : stroke(shape, TRANSPARENT, TRUE)
    \/ \E shape \in Drawn :
         stroke_styled("stroke_styled", shape, TRANSPARENT, TRUE)
    \/ \E rect \in Drawn : draw_image(TRANSPARENT, rect)
    \/ \E rect \in Drawn :
         draw_image_area("draw_image_area", TRANSPARENT, rect)
    \/ \E glyphs \in Drawn, own \in BOOLEAN :
         draw_text(glyphs, TRANSPARENT, own)
    \/ \E rect \in Drawn : blurred_rect(rect)
    \/ status

\* The drawing primitives on a stack of frames with transforms and clips.
SpecDraw == InitSwRast /\ [][NextDraw]_vars

\* Sessions opened one after another on the same Display and Surface, each
\* left with saved frames, transforms, clips and errors.
NextSession ==
    \/ marks = <<>> /\ save
    \/ \E t \in Reflections \ {IDENTITY} : transform(t)
    \/ clip(Pixels)
    \/ fill(Points, TRANSPARENT, FALSE)
    \/ drop
    \/ swrast_new(SurfaceSize[1], SurfaceSize[2], FALSE)

SpecSession == InitSwRast /\ [][NextSession]_vars

\* The widths and heights of a session: zero, the small ones, and those
\* whose products reach 2^32.
Sizes == (0..MaxDim) \cup {Half, Half + 1, 2 * Half}

\* Sessions of every size, in builds with and without overflow checks, each
\* cleared to a colour.
NextSize ==
    \/ \E width \in Sizes, height \in Sizes, overflow_checks \in BOOLEAN :
         swrast_new(width, height, overflow_checks)
    \/ \E color \in OpaqueColors :
         drawing_parts("clear", clear([some |-> FALSE, rect |-> {}], color, TRUE))
    \/ drop

SpecSize == InitSwRast /\ [][NextSize]_vars

\* Frames: sessions that clear the surface, fill points with opaque colours
\* and finish, once or several times.
NextFrame ==
    \/ \E color \in OpaqueColors :
         drawing_parts("clear", clear([some |-> FALSE, rect |-> {}], color, TRUE))
    \/ \E p \in Points, color \in OpaqueColors :
         drawing_parts("fill", fill({p}, color, TRUE))
    \/ finish
    \/ drop
    \/ swrast_new(SurfaceSize[1], SurfaceSize[2], FALSE)

SpecFrame == InitSwRast /\ [][NextFrame]_vars

\* The buffers handed to make_image: every length up to one byte more than
\* the largest image takes.
BufferLens == 0..(MaxDim * MaxDim * 4 + 1)

NextImage ==
    \E width \in 0..MaxDim, height \in 0..MaxDim, len \in BufferLens,
       format \in ImageFormats : make_image(width, height, len, format)

\* Images made of every buffer length, size and format.
SpecImage == InitSwRast /\ [][NextImage]_vars

\* A GL session and a software session side by side: each draws, fails and
\* is asked for its status.
NextStatus ==
    \/ \E d \in Displays : \E nat \in OpenNatives(d, d, MaxDim, MaxDim, TRUE) :
         RenderContextNew(d, d, MaxDim, MaxDim, nat)
    \/ \E d \in Displays : \E nat \in OpenNatives(d, d, MaxDim, MaxDim, FALSE) :
         RenderContextNewUnchecked(d, d, MaxDim, MaxDim, nat)
    \/ \E nat \in DrawNatives(1) : Fill(1, nat)
    \/ Status(1)
    \/ \E d \in Displays : \E nat \in DropNatives(d) : Drop(d, nat)
    \/ \E p \in Points, ok \in BOOLEAN : fill({p}, TRANSPARENT, ok)
    \/ blurred_rect(Points)
    \/ status

SpecStatus == InitGl /\ [][NextStatus]_vars

(***************************************************************************)
(* Properties                                                              *)
(***************************************************************************)

Min(S) == CHOOSE m \in S : \A j \in S : m <= j
OnThread(t) == {d \in Displays : ThreadOf(d) = t}
Live(t) == {d \in OnThread(t) : session[d].live}
LiveChecked(t) == {d \in Live(t) : session[d].check_context}
IsGl(d) == dispBackend[d] = "DesktopGl"

\* The candidates of the registry whose constructor succeeds for the built
\* builder and platform.
Succeeding ==
    {i \in 1..Len(Registry(cfg)) :
        DisplayNew(Registry(cfg)[i], built.input, built.nat, cfg).ok}
Priority(name) ==
    CASE name = "Wgpu" -> 1 [] name = "SwRast" -> 3 [] OTHER -> 2

\* C1: build_from_raw tries the backends in the order wgpu, GL, software
\* rasterizer; the Display gets the first backend whose construction
\* succeeds, and the backends tried are exactly those up to that one.
C1_FirstSuccessWins ==
    built.done =>
        LET reg == Registry(cfg) IN
        /\ \A i, j \in 1..Len(reg) : i < j => Priority(reg[i]) < Priority(reg[j])
        /\ Succeeding # {} =>
             /\ built.res.ok
             /\ built.res.backend = reg[Min(Succeeding)]
             /\ built.res.attempted = SubSeq(reg, 1, Min(Succeeding))

\* A GL Display::new failed in the driver and the software rasterizer, the
\* next candidate, was taken.
C1_Witness ==
    /\ built.done
    /\ ~built.input.force_swrast
    /\ built.nat = "no_context"
    /\ built.res.attempted = <<"DesktopGl", "SwRast">>
    /\ built.res.backend = "SwRast"

\* C2: with force_swrast set the Display is the software rasterizer,
\* whatever the other backends would have done.
C2_ForceSwrastSelectsSwRast ==
    (built.done /\ built.input.force_swrast) =>
        (built.res.ok /\ built.res.backend = "SwRast")

\* force_swrast on a build with wgpu and GL, on a platform where GL works.
C2_Witness ==
    /\ built.done
    /\ built.input.force_swrast
    /\ cfg.wgpu
    /\ cfg.gl = "DesktopGl"
    /\ built.nat = "ok"
    /\ built.res.backend = "SwRast"
    /\ built.res.attempted = <<"Wgpu", "DesktopGl", "SwRast">>

\* C4: a RenderContext::new on a thread with a live checked session returns
\* the concurrency error, calls no backend constructor and changes nothing:
\* the flag stays set, no slot, renderer, buffer or current context changes,
\* and the sessions are as they were.
C4_SecondCheckedOpenRejected ==
    [][(lastOp'.op = "new" /\ LiveChecked(ThreadOf(lastOp'.display)) # {}) =>
         /\ lastOp'.result = "concurrency"
         /\ ~lastOp'.backend_called
         /\ ~lastOp'.resized
         /\ ~lastOp'.took
         /\ HAS_CONTEXT[ThreadOf(lastOp'.display)]
         /\ HAS_CONTEXT' = HAS_CONTEXT
         /\ session' = session
         /\ slot' = slot
         /\ renderer' = renderer
         /\ surf' = surf
         /\ glCurrent' = glCurrent]_vars

\* A checked open on a software-rasterizer Display was rejected while a
\* checked GL session is live on the thread; the buffer was never resized.
C4_Witness ==
    /\ lastOp.op = "new"
    /\ lastOp.result = "concurrency"
    /\ dispBackend[lastOp.display] = "SwRast"
    /\ surf[lastOp.display] = 0
    /\ \E d \in LiveChecked(ThreadOf(lastOp.display)) :
         IsGl(d) /\ glCurrent[ThreadOf(d)] = d /\ ~slot[d]

\* C5: the flag of a thread is set exactly when a checked session is live on
\* that thread.
C5_FlagIffCheckedSessionLive ==
    \A t \in Threads : HAS_CONTEXT[t] <=> LiveChecked(t) # {}

\* C6: on a thread whose live sessions were all opened with
\* RenderContext::new, at most one session is live, and at most one GL
\* context is held current by a session.
C6_AtMostOneCheckedSession ==
    \A t \in Threads :
        (Live(t) = LiveChecked(t)) =>
            /\ Cardinality(Live(t)) <= 1
            /\ Cardinality({d \in Live(t) : session[d].scope}) <= 1

\* A thread with two GL Displays: the first had a session, which was
\* dropped, and a checked session is now live on the second.
C6_Witness ==
    \E d1, d2 \in Displays :
        /\ d1 # d2
        /\ ThreadOf(d1) = ThreadOf(d2)
        /\ IsGl(d1) /\ IsGl(d2)
        /\ renderer[d1] /\ ~session[d1].live
        /\ session[d2].live /\ session[d2].check_context
        /\ lastOp.op = "new" /\ lastOp.display = d2 /\ lastOp.result = "ok"

\* C7: dropping a checked session clears the flag of its thread and, on the
\* GL backend, puts the context back into the Display's slot, so that a
\* checked session can be opened again on that thread and Display.
C7_DropReleasesGuards ==
    [][(lastOp'.op = "drop" /\ lastOp'.checked) =>
         LET d == lastOp'.display IN
         /\ ~HAS_CONTEXT'[ThreadOf(d)]
         /\ ~session'[d].live
         /\ IsGl(d) => slot'[d]]_vars

\* C8: new_unchecked never returns the concurrency error and leaves every
\* flag as it was; so does the drop of an unchecked session.
C8_UncheckedBypassesFlag ==
    [][/\ lastOp'.op = "new_unchecked" =>
            (lastOp'.result # "concurrency" /\ HAS_CONTEXT' = HAS_CONTEXT)
       /\ (lastOp'.op = "drop" /\ ~lastOp'.checked) =>
            HAS_CONTEXT' = HAS_CONTEXT]_vars

\* An unchecked session was opened while a checked session was live on the
\* thread and then dropped; the flag is still set.
C8_Witness ==
    /\ lastOp.op = "drop"
    /\ ~lastOp.checked
    /\ lastOp.result = "ok"
    /\ HAS_CONTEXT[ThreadOf(lastOp.display)]
    /\ LiveChecked(ThreadOf(lastOp.display)) # {}

\* C9: the context of a GL Display is either in the Display's slot, with no
\* session live on the Display, or held by the scope of the live session.
C9_ContextInSlotOrScope ==
    \A d \in Displays :
        IsGl(d) =>
            \/ slot[d] /\ ~session[d].live
            \/ ~slot[d] /\ session[d].live /\ session[d].scope

\* C10: an open that took the context from the slot and returned no session
\* has made it not current once and written it back once, and so has the
\* drop of a GL session; the slot is filled afterwards.
C10_TakenContextGoesBack ==
    [][LET d == lastOp'.display IN
       /\ (lastOp'.op \in {"new", "new_unchecked"} /\ lastOp'.took
             /\ ~session'[d].live) =>
            (lastOp'.unmade = 1 /\ lastOp'.wrote = 1 /\ slot'[d])
       /\ (lastOp'.op = "drop" /\ IsGl(d)) =>
            (lastOp'.unmade = 1 /\ lastOp'.wrote = 1 /\ slot'[d])]_vars

\* C11 as stated: in a checked GL session whose context is not the current
\* one, every session operation, transform included, leaves the renderer
\* alone and reports the mismatch.
C11_EveryOpIsGuarded ==
    [][LET d == lastOp'.display IN
       (/\ lastOp'.op \in VoidOps \cup ResultOps \cup {"finish", "transform"}
        /\ lastOp'.checked /\ IsGl(d)
        /\ glCurrent[ThreadOf(d)] # d) =>
           /\ ~lastOp'.backend_called
           /\ session'[d].mismatch \/ lastOp'.result = "not_current"]_vars

\* C11 amended: in a checked GL session whose context is not the current
\* one, the operations that return nothing leave the renderer alone and
\* store the mismatch for status(); gradient, save, restore, make_image,
\* capture_image_area and finish leave the renderer alone and return the
\* error without storing it; transform is not guarded and reaches the
\* renderer's top frame.
C11_GuardedOpsAreNoOps ==
    [][LET d == lastOp'.display IN
       (lastOp'.checked /\ IsGl(d) /\ glCurrent[ThreadOf(d)] # d) =>
           /\ lastOp'.op \in VoidOps =>
                /\ ~lastOp'.backend_called
                /\ session'[d] = [session[d] EXCEPT !.mismatch = TRUE]
           /\ lastOp'.op \in ResultOps \cup {"finish"} =>
                /\ ~lastOp'.backend_called
                /\ lastOp'.result = "not_current"
                /\ session'[d] = session[d]
           /\ lastOp'.op = "transform" =>
                /\ lastOp'.backend_called
                /\ lastOp'.result = "ok"
                /\ session'[d] = session[d]]_vars

\* A clip in a checked session was dropped and the mismatch stored, while
\* the context of an unchecked session of another Display is current.
C11_Witness ==
    LET d == lastOp.display IN
    /\ lastOp.op = "clip"
    /\ lastOp.checked
    /\ ~lastOp.backend_called
    /\ session[d].live /\ session[d].mismatch
    /\ glCurrent[ThreadOf(d)] \notin {0, d}
    /\ ~session[glCurrent[ThreadOf(d)]].check_context

Top(states) == states[Len(states)]
Below(states) == SubSeq(states, 1, Len(states) - 1)

\* C13: save() succeeds and the frame it pushes has the transform and the
\* effective clip of the frame that was on top.
C13_SavePushesCopyOfTop ==
    [][lastCall'.op = "save" =>
         /\ lastCall'.result = "ok"
         /\ Len(render_states') = Len(render_states) + 1
         /\ Top(render_states').transform = current_transform
         /\ ClipRegion(Top(render_states')) = ClipRegion(current_state)]_vars

\* C14: the stack never loses its base frame; restore() on the base frame
\* alone returns StackUnbalance and leaves the stack and the stored error
\* as they were.
C14_BaseFrameStays ==
    [][/\ Len(render_states) >= 1
       /\ Len(render_states') >= 1
       /\ (lastCall'.op = "restore" /\ Len(render_states) = 1) =>
             /\ lastCall'.result = "StackUnbalance"
             /\ render_states' = render_states
             /\ lastError' = lastError]_vars

\* restore() was refused on a base frame that carries a transform and a clip.
C14_Witness ==
    /\ lastCall.op = "restore"
    /\ lastCall.result = "StackUnbalance"
    /\ Len(render_states) = 1
    /\ current_transform # IDENTITY
    /\ current_state.clip.some

\* C15: every frame below the top one is the frame its save saw, so n
\* restores after n saves, whatever transform and clip calls came after the
\* first save, bring back the transform and the clip from before it.
C15_RoundTrip ==
    [][/\ Len(marks') = Len(render_states') - 1
       /\ \A i \in 1..Len(marks') :
            /\ render_states'[i].transform = marks'[i].transform
            /\ ClipRegion(render_states'[i]) = ClipRegion(marks'[i])
       /\ (lastCall'.op = "restore" /\ lastCall'.result = "ok") =>
            /\ current_transform' = Top(marks).transform
            /\ ClipRegion(current_state') = ClipRegion(Top(marks))]_vars

\* Two saves, each followed by a transform and a clip, were undone by two
\* restores: the base frame is back with the transform and the clip it had.
C15_Witness ==
    /\ lastCall.op = "restore"
    /\ lastCall.result = "ok"
    /\ Len(render_states) = 1
    /\ current_transform # IDENTITY
    /\ current_state.clip.some
    /\ ClipRegion(current_state) # {}

\* C16: transform(t) puts t * old in the top frame and changes nothing
\* else; two calls on an identity frame leave T2 * T1.
C16_TransformMultipliesOnTheLeft ==
    [][lastCall'.op = "transform" =>
         /\ Len(render_states') = Len(render_states)
         /\ current_transform' = AffineMul(lastCall'.arg, current_transform)
         /\ current_state'.clip = current_state.clip
         /\ Below(render_states') = Below(render_states)
         /\ twoTransforms'.n = 2 =>
              current_transform' = AffineMul(twoTransforms'.t2, twoTransforms'.t1)]_vars

\* Two transforms that do not commute went onto the identity frame of a
\* save, above a base frame with a transform of its own.
C16_Witness ==
    /\ lastCall.op = "transform"
    /\ twoTransforms.n = 2
    /\ AffineMul(twoTransforms.t2, twoTransforms.t1)
         # AffineMul(twoTransforms.t1, twoTransforms.t2)
    /\ Len(render_states) > 1
    /\ render_states[1].transform # IDENTITY

C18_ClipIntersects ==
    [][lastCall'.op = "clip" =>
         ClipRegion(current_state') =
             ClipRegion(current_state)
             \cap Image(current_transform, lastCall'.shape)]_vars

\* C19: no call but restore() lets the effective clip grow.
C19_ClipOnlyShrinks ==
    [][lastCall'.op # "restore" =>
         ClipRegion(current_state') \subseteq ClipRegion(current_state)]_vars

\* C20 as stated: every drawing primitive changes pixels only inside the top
\* frame's clip and only where the top frame's transform puts its geometry.
C20_DrawsThroughTopFrame ==
    [][lastCall'.op \in DrawingPrimitives =>
         /\ lastCall'.painted \subseteq ClipRegion(current_state)
         /\ lastCall'.painted
              \subseteq Image(current_transform, lastCall'.shape)]_vars

\* C20 amended: every drawing primitive changes pixels only inside the top
\* frame's clip; it puts its geometry through the top frame's transform,
\* except clear() without a region on a frame without a clip, which fills
\* the whole surface whatever the transform.
C20_DrawsThroughTopFrameButClear ==
    [][lastCall'.op \in DrawingPrimitives =>
         /\ lastCall'.painted \subseteq ClipRegion(current_state)
         /\ IF lastCall'.whole
            THEN /\ lastCall'.op = "clear"
                 /\ ~current_state.clip.some
                 /\ lastCall'.painted = Pixels
            ELSE lastCall'.painted
                   \subseteq Image(current_transform, lastCall'.shape)]_vars

\* An image was drawn over the whole line on a saved frame whose transform
\* and clip differ from the base frame's: the clip kept a pixel out.
C20_Witness ==
    /\ lastCall.op = "draw_image"
    /\ lastCall.shape = Points
    /\ Len(render_states) > 1
    /\ current_state.clip.some
    /\ current_transform # IDENTITY
    /\ current_state # render_states[1]
    /\ lastCall.painted # {}
    /\ lastCall.painted # Pixels

\* C23: an open with a width or a height of zero that reaches a backend
\* constructor returns the invalid-input error (or the error of a native
\* call made before the size is looked at), constructs no session, and
\* neither panics nor configures the surface.
C23_ZeroSizeIsInvalidInput ==
    [][(lastOp'.op \in {"new", "new_unchecked"} /\ lastOp'.backend_called) =>
         /\ lastOp'.result \in {"invalid_input", "backend_error"}
         /\ ~session'[lastOp'.display].live
         /\ ~lastOp'.resized]_vars

\* C21: a drawing call with a Brush or an Image of another backend than
\* the session's panics: the backend's renderer is not called and the
\* session is as it was.
C21_ForeignResourcePanics ==
    [][LET d == lastOp'.display IN
       (/\ lastOp'.op \in BrushOps \cup ImageOps
        /\ lastOp'.tag \in ResourceTags
        /\ lastOp'.tag # dispBackend[d]) =>
           /\ lastOp'.result = "panic"
           /\ ~lastOp'.backend_called
           /\ session' = session]_vars

\* A session of one backend was handed an Image of another Display's
\* backend and panicked.
C21_Witness ==
    /\ lastOp.op = "draw_image_area"
    /\ lastOp.result = "panic"
    /\ session[lastOp.display].live
    /\ lastOp.tag \in {dispBackend[e] : e \in Displays}
    /\ lastOp.tag # dispBackend[lastOp.display]

\* C22: draw_text with a TextLayout of another backend panics, whatever the
\* session's backend.
C22_ForeignLayoutPanics ==
    [][LET d == lastOp'.display IN
       (/\ lastOp'.op = "draw_text"
        /\ lastOp'.tag # LayoutTag(dispBackend[d])) =>
           lastOp'.result = "panic"]_vars

\* C24: on the software rasterizer, GL and wgpu, finish() has presented the
\* frame when it returns Ok, and has not when it returns an error.
C24_FinishPresents ==
    [][LET d == lastOp'.display IN
       (lastOp'.op = "finish"
        /\ dispBackend[d] \in {"SwRast", "DesktopGl", "Wgpu"}) =>
           (lastOp'.presented <=> lastOp'.result = "ok")]_vars

\* C25: status() returns the error of the first drawing call that failed
\* since the status() before it.
C25_FirstErrorWins ==
    [][lastCall'.op = "status" => lastCall'.result = history.first]_vars

C27_StatusClears ==
    [][/\ (lastCall'.op = "status" /\ lastCall' # lastCall) =>
            /\ lastError' = "ok"
            /\ lastCall'.result = lastError
            /\ lastCall.op = "status" => lastCall'.result = "ok"
       /\ (lastOp'.op = "status" /\ lastOp' # lastOp) =>
            /\ ~session'[lastOp'.display].err
            /\ ~session'[lastOp'.display].mismatch
            /\ lastOp'.result # "ok" =>
                 session[lastOp'.display].err \/ session[lastOp'.display].mismatch
            /\ (lastOp.op = "status" /\ lastOp.display = lastOp'.display) =>
                 lastOp'.result = "ok"]_vars

\* The software session's status() returned Ok right after a status() that
\* returned an error, and the GL session's status() has returned its
\* context mismatch.
C27_Witness ==
    /\ lastCall.op = "status"
    /\ lastCall.result = "ok"
    /\ lastError = "ok"
    /\ history.first = "ok"
    /\ lastOp.op = "status"
    /\ lastOp.result = "not_current"
    /\ ~session[lastOp.display].mismatch

\* C30: in a fresh session save(), transform(t) with a translation t,
\* fill(shape), restore(), fill(shape) paints the shape moved by t and then
\* the shape where it is; the transform is the identity again.
C30_SaveTranslateFillRestoreFill ==
    [][(history'.step = 5 /\ history'.t.a = IDENTITY.a) =>
         /\ history'.painted = Image(history'.t, history'.shape) \cap Pixels
         /\ lastCall'.painted = history'.shape \cap Pixels
         /\ current_transform' = IDENTITY
         /\ Len(render_states') = 1]_vars

\* The five calls were made with a translation that moves the point: the
\* two fills painted different pixels.
C30_Witness ==
    /\ history.step = 5
    /\ history.t.a = IDENTITY.a
    /\ history.t # IDENTITY
    /\ history.painted # {}
    /\ lastCall.painted # {}
    /\ history.painted # lastCall.painted

\* C29: HAS_CONTEXT is one flag per thread: an open or a drop changes no
\* flag but that of the thread its Display lives on, and a checked open is
\* refused for concurrency only when the flag of its own thread is set,
\* whatever sessions the other thread holds.
C29_FlagIsPerThread ==
    [][lastOp'.display \in Displays =>
         /\ \A t \in Threads \ {dispThread[lastOp'.display]} :
              HAS_CONTEXT'[t] = HAS_CONTEXT[t]
         /\ (lastOp'.op = "new" /\ lastOp'.result = "concurrency") =>
              HAS_CONTEXT[dispThread[lastOp'.display]]
         /\ (lastOp'.op = "new" /\ ~HAS_CONTEXT[dispThread[lastOp'.display]]) =>
              lastOp'.result # "concurrency"]_vars

\* A checked open went through on one thread while a checked session was
\* live on the other, and both flags are set.
C29_Witness ==
    /\ lastOp.op = "new"
    /\ lastOp.checked
    /\ lastOp.result = "ok"
    /\ session[lastOp.display].live
    /\ \E e \in Displays :
         /\ dispThread[e] # dispThread[lastOp.display]
         /\ session[e].live
         /\ session[e].check_context
    /\ \A t \in Threads : HAS_CONTEXT[t]

\* C28: make_image with a buffer whose length is not width * height * the
\* bytes of one pixel of the format, or with a zero width or height,
\* returns InvalidInput: it does not panic and makes no image.
C28_MalformedImageIsInvalidInput ==
    [][(/\ made'.done
        /\ \/ made'.width = 0
           \/ made'.height = 0
           \/ made'.len # made'.width * made'.height * BytesPerPixel(made'.format))
       => made'.result = "InvalidInput"]_vars

\* C32: clip(shape) builds its mask from the shape moved by the transform
\* of the top frame, and changes no transform and no frame below the top;
\* transform() changes the transform of the top frame and nothing else:
\* the clip masks of all frames stay as they were.
C32_ClipInDeviceSpace ==
    [][/\ lastCall'.op = "clip" =>
            /\ Len(render_states') = Len(render_states)
            /\ \A i \in 1..Len(render_states) :
                 /\ render_states'[i].transform = render_states[i].transform
                 /\ i < Len(render_states) => render_states'[i] = render_states[i]
            /\ Image(current_transform, lastCall'.shape) # {} =>
                 ClipRegion(current_state') =
                     ClipRegion(current_state)
                     \cap Image(current_transform, lastCall'.shape)
       /\ lastCall'.op = "transform" =>
            /\ Len(render_states') = Len(render_states)
            /\ \A i \in 1..Len(render_states) :
                 /\ render_states'[i].clip = render_states[i].clip
                 /\ i < Len(render_states) => render_states'[i] = render_states[i]]_vars

\* A clip was set on a saved frame under a transform that moves its shape,
\* above a base frame with a clip of its own.
C32_Witness ==
    /\ lastCall.op = "clip"
    /\ Len(render_states) > 1
    /\ current_transform # IDENTITY
    /\ Image(current_transform, lastCall.shape) # lastCall.shape
    /\ current_state.clip.some
    /\ current_state.clip.mask # {}
    /\ current_state.clip.mask # Pixels
    /\ render_states[1].clip.some

\* C33: the GL session's status() loses no error: a drawing error or a
\* context mismatch that is pending and that this status() does not return
\* is still pending after it.
C33_StatusKeepsUnreturned ==
    [][(lastOp'.op = "status" /\ lastOp' # lastOp) =>
         LET d == lastOp'.display IN
         /\ (session[d].err /\ lastOp'.result # "backend_error") =>
              session'[d].err
         /\ (session[d].mismatch /\ lastOp'.result # "not_current") =>
              session'[d].mismatch]_vars

\* C36: every Brush and Image a session returns carries the tag of that
\* session's backend, and a drawing call with a resource that a session of
\* the same Display returned does not panic.
C36_OwnResourcesFit ==
    [][/\ \A r \in resources' : r.tag = dispBackend[r.maker]
       /\ \A r \in resources :
            (/\ lastOp'.op \in BrushOps \cup ImageOps
             /\ lastOp' # lastOp
             /\ r.maker = lastOp'.display
             /\ r.kind = Kind(lastOp'.op)
             /\ r.tag = lastOp'.tag) =>
                lastOp'.result # "panic"]_vars

\* A session drew with a brush that an earlier session of its Display had
\* returned, while a brush of a Display of another backend was there too.
C36_Witness ==
    /\ lastOp.op = "fill"
    /\ lastOp.backend_called
    /\ lastOp.result = "ok"
    /\ \E r \in resources :
         /\ r.kind = "Brush"
         /\ r.maker = lastOp.display
         /\ r.tag = lastOp.tag
    /\ \E r \in resources :
         /\ r.kind = "Brush"
         /\ r.tag # lastOp.tag

\* C37: the software rasterizer is the last entry of the registry in
\* every configuration and its construction succeeds, so every finished
\* build_from_raw returned a Display and none went through all candidates
\* without one.
C37_BuildAlwaysReturnsDisplay ==
    built.done =>
        LET reg == Registry(cfg) IN
        /\ reg[Len(reg)] = "SwRast"
        /\ built.res.ok
        /\ built.res.backend \in {reg[i] : i \in 1..Len(reg)}
        /\ built.res.err = "none"
        /\ Len(built.res.log) < Len(reg)

\* wgpu and GL both refused (the GL driver gave no context, wgpu was told to
\* stand back) and the build still returned a Display.
C37_Witness ==
    /\ built.done
    /\ built.res.ok
    /\ Len(Registry(cfg)) > 2
    /\ Len(built.res.log) = Len(Registry(cfg)) - 1
    /\ built.res.attempted = Registry(cfg)

\* C34: every session that swrast opens starts with exactly one frame, with
\* the identity transform and no clip, and with no error stored, whatever
\* the session before it on the same Display and Surface was dropped with.
C34_NewSessionStartsFresh ==
    [][(~SessionOpen /\ lastCall'.op = "new" /\ lastCall'.result = "ok")
       => /\ Len(render_states') = 1
          /\ render_states'[1].transform = IDENTITY
          /\ ~render_states'[1].clip.some
          /\ lastError' = "ok"]_vars

\* A session opened after one that was dropped with frames saved, a
\* transform and a clip on its top frame, and an error stored.
C34_Witness ==
    /\ lastCall.op = "new"
    /\ lastCall.result = "ok"
    /\ history.left.depth > 1
    /\ history.left.error # "ok"
    /\ history.left.top.transform # IDENTITY
    /\ history.left.top.clip.some
    /\ render_states = <<DefaultRenderState>>
    /\ lastError = "ok"

\* C35: whatever non-zero width and height a software-rasterizer open
\* accepts, the buffer of the open session holds exactly width * height
\* pixels, so the pixel view of a later drawing call is always there.
C35_BufferHoldsWidthTimesHeight ==
    SessionOpen => PixmapFits(buffer.len, size[1], size[2])

\* C31: a session that clears the whole surface to opaque white, fills the
\* square at the origin with opaque black and finishes presents a frame
\* whose square at the origin is black and whose every other pixel is white.
C31_BlackSquareOnWhite ==
    history.rendered = 3 =>
        /\ shown.some
        /\ \A p \in Pixels :
             shown.px[p] = IF p = 0 THEN <<0, 0, 0>> ELSE <<255, 255, 255>>

\* The frame of clear(None, WHITE), fill of the origin with BLACK, finish().
C31_Witness ==
    /\ history.rendered = 3
    /\ lastCall.op = "finish"
    /\ shown.some
    /\ shown.px[0] = <<0, 0, 0>>
    /\ shown.px[1] = <<255, 255, 255>>

\* C38: finish() called twice in one session with no drawing call in between
\* presents the same pixel values both times.
C38_FinishIdempotent ==
    [][(lastCall.op = "finish" /\ lastCall'.op = "finish" /\ SessionOpen')
       => shown'.px = shown.px]_vars
====
